---- MODULE Spec2Model ----
(***************************************************************************)
(* Video-Insight-AI: the storeDocument ingestion pipeline.                 *)
(*                                                                         *)
(*   src/server/services/storeDocumentService.js   the scraping revision   *)
(*   src/unnamed/part_000                          the loader revision     *)
(*                                                                         *)
(* JavaScript strings are sequences of one-character strings.  A value of  *)
(* type "string | null" is a record [isNull, s].                           *)
(***************************************************************************)
EXTENDS Naturals, Sequences, FiniteSets

VARIABLES
  pc,          \* position of the running function
  rev,         \* which revision of storeDocument runs: "scrape" | "loader"
  req,         \* the request handed to storeDocument
  apiKey,      \* process.env.GEMINI_API_KEY is set
  videoId,     \* const videoId
  html,        \* the watch page, as what the two regexes and JSON.parse find in it
  track,       \* selectedTrack
  transcript,  \* what fetchTranscript returned
  videoTitle,  \* what getVideoTitle returned
  docs,        \* docsWithMetaData
  written,     \* rows the vector store holds after addDocuments
  exc,         \* the Error travelling to the catch clause
  result,      \* how the invocation ended and the object it returned
  calls,       \* the external calls made so far, in order
  arg,         \* argument of the pure function under check
  ret          \* its return value

vars == <<pc, rev, req, apiKey, videoId, html, track, transcript, videoTitle,
          docs, written, exc, result, calls, arg, ret>>

pipelineVars == <<rev, req, apiKey, videoId, html, track, transcript, videoTitle,
                  docs, written, exc, result, calls>>

(***************************************************************************)
(* Strings                                                                 *)
(***************************************************************************)
Null == [isNull |-> TRUE, s |-> <<>>]

Str(x) == [isNull |-> FALSE, s |-> x]

\* JavaScript truthiness of a string | null value.
Truthy(v) == ~v.isNull /\ v.s # <<>>

LF == "\n"

\* lit occurs in s at index i.
MatchAt(s, i, lit) ==
  /\ i >= 1
  /\ i + Len(lit) - 1 <= Len(s)
  /\ \A k \in 1..Len(lit) : s[i + k - 1] = lit[k]

\* String.prototype.includes
Includes(s, lit) == \E i \in 1..(Len(s) + 1) : MatchAt(s, i, lit)

\* String.prototype.startsWith
StartsWith(s, lit) == MatchAt(s, 1, lit)

\* s[from..to], empty when from > to.
Slice(s, from, to) == [k \in 1..(IF to >= from THEN to - from + 1 ELSE 0) |-> s[from + k - 1]]

(***************************************************************************)
(* extractVideoId                                                          *)
(***************************************************************************)
LowerSeq ==
  <<"a","b","c","d","e","f","g","h","i","j","k","l","m",
    "n","o","p","q","r","s","t","u","v","w","x","y","z">>

UpperSeq ==
  <<"A","B","C","D","E","F","G","H","I","J","K","L","M",
    "N","O","P","Q","R","S","T","U","V","W","X","Y","Z">>

Digits == {"0","1","2","3","4","5","6","7","8","9"}

\* [a-zA-Z0-9_-]
IdChar(c) ==
  \/ \E k \in 1..Len(LowerSeq) : c = LowerSeq[k] \/ c = UpperSeq[k]
  \/ c \in Digits \cup {"_", "-"}

\* {11}
IdLen == 11

UrlDelimiterNoHash(c) == c \in {"&", LF, "?"}

\* the characters [^&\n?#] excludes
UrlDelimiter(c) == c \in {"&", LF, "?", "#"}

\* (?:youtube\.com\/watch\?v=|youtu\.be\/|youtube\.com\/embed\/), in the order written
UrlAlternatives ==
  << <<"y","o","u","t","u","b","e",".","c","o","m","/","w","a","t","c","h","?","v","=">>,
     <<"y","o","u","t","u",".","b","e","/">>,
     <<"y","o","u","t","u","b","e",".","c","o","m","/","e","m","b","e","d","/">> >>

\* The alternative matches at i and ([^&\n?#]+) can take at least one character.
UrlPatternAt(url, i, alt) ==
  /\ MatchAt(url, i, alt)
  /\ i + Len(alt) <= Len(url)
  /\ ~UrlDelimiter(url[i + Len(alt)])

\* Last index of the greedy run [^&\n?#]+ that starts at from.
UrlRunEnd(url, from) ==
  CHOOSE e \in from..Len(url) :
    /\ \A k \in from..e : ~UrlDelimiter(url[k])
    /\ (e = Len(url) \/ UrlDelimiter(url[e + 1]))

\* url.match(patterns[0]): the leftmost match, match[1] is the greedy run.
UrlPattern(url) ==
  LET hits == {i \in 1..Len(url) : \E a \in 1..Len(UrlAlternatives) : UrlPatternAt(url, i, UrlAlternatives[a])}
  IN  IF hits = {} THEN Null
      ELSE LET i == CHOOSE h \in hits : \A g \in hits : h <= g
               a == CHOOSE b \in 1..Len(UrlAlternatives) :
                      /\ UrlPatternAt(url, i, UrlAlternatives[b])
                      /\ \A c \in 1..(b - 1) : ~UrlPatternAt(url, i, UrlAlternatives[c])
               from == i + Len(UrlAlternatives[a])
           IN  Str(Slice(url, from, UrlRunEnd(url, from)))

\* url.match(patterns[1]): /^([a-zA-Z0-9_-]{11})$/
BareIdPattern(url) ==
  IF Len(url) = IdLen /\ \A k \in 1..Len(url) : IdChar(url[k]) THEN Str(url) ELSE Null

\* for (const pattern of patterns) { const match = url.match(pattern); if (match) return match[1] }
extractVideoId(url) ==
  LET first == UrlPattern(url)
  IN  IF ~first.isNull THEN first ELSE BareIdPattern(url)

(***************************************************************************)
(* decodeHtmlEntities                                                      *)
(***************************************************************************)
RECURSIVE ReplaceFrom(_, _, _, _)
\* s.replace(/pat/g, rep) from index i on: leftmost matches, not overlapping.
ReplaceFrom(s, i, pat, rep) ==
  IF i > Len(s) THEN <<>>
  ELSE IF MatchAt(s, i, pat) THEN rep \o ReplaceFrom(s, i + Len(pat), pat, rep)
  ELSE <<s[i]>> \o ReplaceFrom(s, i + 1, pat, rep)

WhiteSpace == {" ", LF, "\t", "\r"}

\* String.prototype.trim
Trim(s) ==
  LET keep == {k \in 1..Len(s) : s[k] \notin WhiteSpace}
  IN  IF keep = {} THEN <<>>
      ELSE Slice(s, CHOOSE a \in keep : \A b \in keep : a <= b,
                    CHOOSE a \in keep : \A b \in keep : a >= b)

\* The entity table, in the order of the chained .replace calls.
Entities ==
  << <<  <<"&","a","m","p",";">>,          <<"&">>  >>,
     <<  <<"&","l","t",";">>,              <<"<">>  >>,
     <<  <<"&","g","t",";">>,              <<">">>  >>,
     <<  <<"&","q","u","o","t",";">>,      <<"\"">> >>,
     <<  <<"&","#","3","9",";">>,          <<"'">>  >>,
     <<  <<"&","a","p","o","s",";">>,      <<"'">>  >>,
     <<  <<"&","n","b","s","p",";">>,      <<" ">>  >>,
     <<  <<"\\","n">>,                     <<" ">>  >>,
     <<  <<LF>>,                           <<" ">>  >> >>

RECURSIVE ReplaceChain(_, _, _)
ReplaceChain(s, table, k) ==
  IF k > Len(table) THEN s
  ELSE ReplaceChain(ReplaceFrom(s, 1, table[k][1], table[k][2]), table, k + 1)

decodeHtmlEntities(text) ==
  IF text = <<>> THEN <<>> ELSE Trim(ReplaceChain(text, Entities, 1))

\* texts.join(' ')
RECURSIVE Join(_)
Join(texts) ==
  IF texts = <<>> THEN <<>>
  ELSE IF Len(texts) = 1 THEN texts[1]
  ELSE texts[1] \o <<" ">> \o Join(Tail(texts))

(***************************************************************************)
(* JSON.parse, for the JSON the caption endpoint serves: objects, arrays,  *)
(* strings with the escapes \n \" \\ \/ \t, null, true, false, unsigned    *)
(* integers.  A value is a record [t, s, items, keys]; an object's items   *)
(* are its values, in the order of keys.                                   *)
(***************************************************************************)
\* t is "null", "undefined", "str", "num", "bool", "arr" or "obj"; s holds the
\* characters of a string, and the literal of a number or boolean.
JVal(t, s, items, keys) == [t |-> t, s |-> s, items |-> items, keys |-> keys]

JNull == JVal("null", <<>>, <<>>, <<>>)

JUndefined == JVal("undefined", <<>>, <<>>, <<>>)

JStr(x) == JVal("str", x, <<>>, <<>>)

JArr(xs) == JVal("arr", <<>>, xs, <<>>)

JObj(ks, xs) == JVal("obj", <<>>, xs, ks)

JFail == [ok |-> FALSE, v |-> JUndefined, next |-> 0]

JOk(v, next) == [ok |-> TRUE, v |-> v, next |-> next]

\* First index >= i that holds no JSON whitespace (Len(s) + 1 at the end).
SkipWs(s, i) ==
  CHOOSE k \in i..(Len(s) + 1) :
    /\ \A m \in i..(k - 1) : s[m] \in {" ", LF, "\t", "\r"}
    /\ (k = Len(s) + 1 \/ s[k] \notin {" ", LF, "\t", "\r"})

JsonEscapes == [c \in {"n", "\"", "\\", "/", "t"} |->
                  IF c = "n" THEN LF ELSE IF c = "t" THEN "\t" ELSE c]

RECURSIVE StringEnd(_, _)
\* Index of the quote that closes the string literal whose characters start
\* at i; 0 when the literal is not well formed.
StringEnd(s, i) ==
  IF i > Len(s) THEN 0
  ELSE IF s[i] = "\"" THEN i
  ELSE IF s[i] \in {LF, "\t", "\r"} THEN 0
  ELSE IF s[i] = "\\" THEN
    IF i + 1 > Len(s) \/ s[i + 1] \notin DOMAIN JsonEscapes THEN 0 ELSE StringEnd(s, i + 2)
  ELSE StringEnd(s, i + 1)

RECURSIVE Unescaped(_, _, _)
\* The characters s[i..e-1] of a string literal stand for.
Unescaped(s, i, e) ==
  IF i >= e THEN <<>>
  ELSE IF s[i] = "\\" THEN <<JsonEscapes[s[i + 1]]>> \o Unescaped(s, i + 2, e)
  ELSE <<s[i]>> \o Unescaped(s, i + 1, e)

\* The string literal whose characters start at i (after the opening quote).
StringBody(s, i) ==
  IF StringEnd(s, i) = 0 THEN JFail
  ELSE JOk(JStr(Unescaped(s, i, StringEnd(s, i))), StringEnd(s, i) + 1)

\* Last index of the digit run that starts at i.
DigitsEnd(s, i) ==
  CHOOSE e \in i..Len(s) :
    /\ \A k \in i..e : s[k] \in Digits
    /\ (e = Len(s) \/ s[e + 1] \notin Digits)

RECURSIVE ParseValue(_, _)
RECURSIVE ParseElements(_, _)
RECURSIVE ParseMembers(_, _)

PrependElement(v, rest) ==
  IF rest.ok THEN JOk(JArr(<<v>> \o rest.v.items), rest.next) ELSE JFail

\* After an element v: "]" ends the array, "," brings the next element.
ElementSeparator(s, v, k) ==
  IF k > Len(s) THEN JFail
  ELSE IF s[k] = "]" THEN JOk(JArr(<<v>>), k + 1)
  ELSE IF s[k] = "," THEN PrependElement(v, ParseElements(s, k + 1))
  ELSE JFail

ElementThen(s, r) == IF ~r.ok THEN JFail ELSE ElementSeparator(s, r.v, SkipWs(s, r.next))

\* value (, value)* ]
ParseElements(s, i) == ElementThen(s, ParseValue(s, i))

PrependMember(key, v, rest) ==
  IF rest.ok THEN JOk(JObj(<<key>> \o rest.v.keys, <<v>> \o rest.v.items), rest.next) ELSE JFail

\* After a member key : v: "}" ends the object, "," brings the next member.
MemberSeparator(s, key, v, k) ==
  IF k > Len(s) THEN JFail
  ELSE IF s[k] = "}" THEN JOk(JObj(<<key>>, <<v>>), k + 1)
  ELSE IF s[k] = "," THEN PrependMember(key, v, ParseMembers(s, k + 1))
  ELSE JFail

MemberThen(s, key, r) ==
  IF ~r.ok THEN JFail ELSE MemberSeparator(s, key, r.v, SkipWs(s, r.next))

MemberValue(s, key, c) ==
  IF c > Len(s) \/ s[c] # ":" THEN JFail ELSE MemberThen(s, key, ParseValue(s, c + 1))

MemberColon(s, key) == IF ~key.ok THEN JFail ELSE MemberValue(s, key.v.s, SkipWs(s, key.next))

MemberKey(s, j) ==
  IF j > Len(s) \/ s[j] # "\"" THEN JFail ELSE MemberColon(s, StringBody(s, j + 1))

\* "key" : value (, "key" : value)* }
ParseMembers(s, i) == MemberKey(s, SkipWs(s, i))

\* After "[" or "{": the empty array or object closed by close at k, or the
\* elements or members from k on.
Bracketed(s, k, close) ==
  IF k <= Len(s) /\ s[k] = close
  THEN JOk(IF close = "]" THEN JArr(<<>>) ELSE JObj(<<>>, <<>>), k + 1)
  ELSE IF close = "]" THEN ParseElements(s, k) ELSE ParseMembers(s, k)

ValueAt(s, j) ==
  IF j > Len(s) THEN JFail
  ELSE IF s[j] = "\"" THEN StringBody(s, j + 1)
  ELSE IF s[j] = "[" THEN Bracketed(s, SkipWs(s, j + 1), "]")
  ELSE IF s[j] = "{" THEN Bracketed(s, SkipWs(s, j + 1), "}")
  ELSE IF MatchAt(s, j, <<"n","u","l","l">>) THEN JOk(JNull, j + 4)
  ELSE IF MatchAt(s, j, <<"t","r","u","e">>) THEN JOk(JVal("bool", <<"t","r","u","e">>, <<>>, <<>>), j + 4)
  ELSE IF MatchAt(s, j, <<"f","a","l","s","e">>) THEN JOk(JVal("bool", <<"f","a","l","s","e">>, <<>>, <<>>), j + 5)
  ELSE IF s[j] \in Digits THEN
    \* a leading zero stands alone
    IF s[j] # "0" \/ DigitsEnd(s, j) = j
    THEN JOk(JVal("num", Slice(s, j, DigitsEnd(s, j)), <<>>, <<>>), DigitsEnd(s, j) + 1)
    ELSE JFail
  ELSE JFail

ParseValue(s, i) == ValueAt(s, SkipWs(s, i))

\* Nothing but whitespace may follow the value.
WholeInput(s, r) == IF r.ok /\ SkipWs(s, r.next) = Len(s) + 1 THEN r ELSE JFail

\* JSON.parse(s): ok = FALSE is the SyntaxError.
JsonParse(s) == WholeInput(s, ParseValue(s, 1))

\* v.key for a value that is neither null nor undefined (the last of equal keys wins).
Prop(v, key) ==
  IF v.t = "obj" /\ \E k \in 1..Len(v.keys) : v.keys[k] = key
  THEN v.items[CHOOSE k \in 1..Len(v.keys) :
                 v.keys[k] = key /\ \A m \in (k + 1)..Len(v.keys) : v.keys[m] # key]
  ELSE JUndefined

\* Reading a property of v throws a TypeError.
Nullish(v) == v.t \in {"null", "undefined"}

JsTruthy(v) ==
  CASE v.t \in {"null", "undefined"} -> FALSE
    [] v.t = "str"  -> v.s # <<>>
    [] v.t = "num"  -> v.s # <<"0">>
    [] v.t = "bool" -> v.s = <<"t","r","u","e">>
    [] OTHER        -> TRUE

\* What for (const x of v) iterates over; a string iterates over its characters.
Iterable(v) == v.t \in {"arr", "str"}

IterItems(v) == IF v.t = "arr" THEN v.items ELSE [k \in 1..Len(v.s) |-> JStr(<<v.s[k]>>)]

(***************************************************************************)
(* The events / segs walk over a parsed caption document                   *)
(***************************************************************************)
\* What one seg.utf8 string pushes: in parseCaptionXml, lines 90-91 (mode
\* "decode"); in fetchTranscript, lines 190-192 and 253-255 (mode "trim").
SegText(u, mode) ==
  IF mode = "decode"
  THEN IF decodeHtmlEntities(u) \notin {<<>>, <<LF>>} THEN <<decodeHtmlEntities(u)>> ELSE <<>>
  ELSE IF Trim(u) # <<>> /\ u # <<LF>> THEN <<Trim(u)>> ELSE <<>>

Walked(threw, texts) == [threw |-> threw, texts |-> texts]

\* texts were pushed, then the rest of the loop ran.
PushThen(texts, rest) == Walked(rest.threw, texts \o rest.texts)

RECURSIVE WalkSegs(_, _, _)

\* for (const seg of event.segs) from the k-th seg on: the texts pushed, and
\* whether a TypeError ended the loop (a null seg, a utf8 that is no string).
WalkSegs(segs, k, mode) ==
  IF k > Len(segs) THEN Walked(FALSE, <<>>)
  ELSE IF Nullish(segs[k]) THEN Walked(TRUE, <<>>)
  ELSE IF ~JsTruthy(Prop(segs[k], <<"u","t","f","8">>)) THEN WalkSegs(segs, k + 1, mode)
  ELSE IF Prop(segs[k], <<"u","t","f","8">>).t # "str" THEN Walked(TRUE, <<>>)
  ELSE PushThen(SegText(Prop(segs[k], <<"u","t","f","8">>).s, mode), WalkSegs(segs, k + 1, mode))

RECURSIVE WalkEvents(_, _, _)

\* The inner loop ran over the k-th event's segs: on with the next event,
\* unless an exception ended it.
EventThen(events, k, mode, here) ==
  IF here.threw THEN here ELSE PushThen(here.texts, WalkEvents(events, k + 1, mode))

\* for (const event of events) from the k-th event on.
WalkEvents(events, k, mode) ==
  IF k > Len(events) THEN Walked(FALSE, <<>>)
  ELSE IF Nullish(events[k]) THEN Walked(TRUE, <<>>)
  ELSE IF ~JsTruthy(Prop(events[k], <<"s","e","g","s">>)) THEN WalkEvents(events, k + 1, mode)
  ELSE IF ~Iterable(Prop(events[k], <<"s","e","g","s">>)) THEN Walked(TRUE, <<>>)
  ELSE EventThen(events, k, mode, WalkSegs(IterItems(Prop(events[k], <<"s","e","g","s">>)), 1, mode))

\* if (json.events) { for (const event of json.events) ... }
ParsedCaption(parsed, mode) ==
  IF ~parsed.ok \/ Nullish(parsed.v) THEN Walked(TRUE, <<>>)
  ELSE IF ~JsTruthy(Prop(parsed.v, <<"e","v","e","n","t","s">>)) THEN Walked(FALSE, <<>>)
  ELSE IF ~Iterable(Prop(parsed.v, <<"e","v","e","n","t","s">>)) THEN Walked(TRUE, <<>>)
  ELSE WalkEvents(IterItems(Prop(parsed.v, <<"e","v","e","n","t","s">>)), 1, mode)

\* JSON.parse(data), then if (json.events) { the walk }: the texts pushed when
\* the block ended, and whether it ended by an exception.
CaptionJson(data, mode) == ParsedCaption(JsonParse(data), mode)

(***************************************************************************)
(* parseCaptionXml                                                         *)
(***************************************************************************)
\* The i flag: the case-folded character.
Lower(c) ==
  IF \E k \in 1..Len(UpperSeq) : UpperSeq[k] = c
  THEN LowerSeq[CHOOSE k \in 1..Len(UpperSeq) : UpperSeq[k] = c]
  ELSE c

MatchAtCI(s, i, lit) ==
  /\ i >= 1
  /\ i + Len(lit) - 1 <= Len(s)
  /\ \A k \in 1..Len(lit) : Lower(s[i + k - 1]) = Lower(lit[k])

\* Least index >= from that holds c, 0 when there is none.
FirstIndex(s, from, c) ==
  IF \E k \in from..Len(s) : s[k] = c
  THEN CHOOSE k \in from..Len(s) : s[k] = c /\ \A m \in from..(k - 1) : s[m] # c
  ELSE 0

\* Least index >= from where lit occurs (case folded), 0 when there is none.
FirstMatchCI(s, from, lit) ==
  IF \E k \in from..Len(s) : MatchAtCI(s, k, lit)
  THEN CHOOSE k \in from..Len(s) :
         MatchAtCI(s, k, lit) /\ \A m \in from..(k - 1) : ~MatchAtCI(s, m, lit)
  ELSE 0

TextOpen == <<"<","t","e","x","t">>

TextClose == <<"<","/","t","e","x","t",">">>

CdataOpen == <<"<","!","[","C","D","A","T","A","[">>

CdataClose == <<"]","]",">","<","/","t","e","x","t",">">>

NoMatch == [found |-> FALSE, group |-> <<>>, next |-> 0]

Match(group, next) == [found |-> TRUE, group |-> group, next |-> next]

\* <text[^>]*> at i: the index of its closing ">", 0 when it does not match.
TextOpenEnd(xml, i) ==
  IF MatchAtCI(xml, i, TextOpen) THEN FirstIndex(xml, i + Len(TextOpen), ">") ELSE 0

\* ([^<]+)<\/text> after the ">" at gt, lt being the next "<"
TextGroup(xml, gt, lt) ==
  IF lt > gt + 1 /\ MatchAtCI(xml, lt, TextClose)
  THEN Match(Slice(xml, gt + 1, lt - 1), lt + Len(TextClose))
  ELSE NoMatch

\* /<text[^>]*>([^<]+)<\/text>/gi at i
TextPatternAt(xml, i) ==
  IF TextOpenEnd(xml, i) = 0 THEN NoMatch
  ELSE TextGroup(xml, TextOpenEnd(xml, i), FirstIndex(xml, TextOpenEnd(xml, i) + 1, "<"))

\* (.*?)\]\]><\/text> from index from on, to being the first "]]></text>":
\* (.*?) is the shortest run and holds no line terminator.
CdataGroup(xml, from, to) ==
  IF to # 0 /\ \A k \in from..(to - 1) : xml[k] \notin {LF, "\r"}
  THEN Match(Slice(xml, from, to - 1), to + Len(CdataClose))
  ELSE NoMatch

\* /<text[^>]*><!\[CDATA\[(.*?)\]\]><\/text>/gi at i
CdataPatternAt(xml, i) ==
  IF TextOpenEnd(xml, i) # 0 /\ MatchAtCI(xml, TextOpenEnd(xml, i) + 1, CdataOpen)
  THEN CdataGroup(xml, TextOpenEnd(xml, i) + 1 + Len(CdataOpen),
                  FirstMatchCI(xml, TextOpenEnd(xml, i) + 1 + Len(CdataOpen), CdataClose))
  ELSE NoMatch

\* {2,}
MinGenericLen == 2

\* ([^<]{2,})< after the ">" at i, lt being the next "<"
GenericGroup(xml, i, lt) ==
  IF lt # 0 /\ lt - (i + 1) >= MinGenericLen
  THEN Match(Slice(xml, i + 1, lt - 1), lt + 1)
  ELSE NoMatch

\* />([^<]{2,})</g at i
GenericPatternAt(xml, i) ==
  IF i <= Len(xml) /\ xml[i] = ">" THEN GenericGroup(xml, i, FirstIndex(xml, i + 1, "<")) ELSE NoMatch

PatternAt(kind, xml, i) ==
  CASE kind = "text"  -> TextPatternAt(xml, i)
    [] kind = "cdata" -> CdataPatternAt(xml, i)
    [] OTHER          -> GenericPatternAt(xml, i)

RECURSIVE Groups(_, _, _)
\* while ((match = pattern.exec(xml)) !== null): every match[1] from index i
\* on, each search starting where the previous match ended.
Groups(kind, xml, i) ==
  IF i > Len(xml) THEN <<>>
  ELSE IF PatternAt(kind, xml, i).found
  THEN <<PatternAt(kind, xml, i).group>> \o Groups(kind, xml, PatternAt(kind, xml, i).next)
  ELSE Groups(kind, xml, i + 1)

\* if (decoded) texts.push(decoded)
KeepNonEmpty(decoded) == IF decoded # <<>> THEN <<decoded>> ELSE <<>>

RECURSIVE DecodedTexts(_)
\* const decoded = decodeHtmlEntities(match[1]); if (decoded) texts.push(decoded)
DecodedTexts(groups) ==
  IF groups = <<>> THEN <<>>
  ELSE KeepNonEmpty(decodeHtmlEntities(Head(groups))) \o DecodedTexts(Tail(groups))

\* if (decoded && !decoded.startsWith('<?') && !decoded.includes('encoding')) texts.push(decoded)
KeepGeneric(decoded) ==
  IF /\ decoded # <<>>
     /\ ~StartsWith(decoded, <<"<","?">>)
     /\ ~Includes(decoded, <<"e","n","c","o","d","i","n","g">>)
  THEN <<decoded>> ELSE <<>>

RECURSIVE GenericTexts(_)
GenericTexts(groups) ==
  IF groups = <<>> THEN <<>>
  ELSE KeepGeneric(decodeHtmlEntities(Head(groups))) \o GenericTexts(Tail(groups))

\* Pattern 1, lines 57-62: what the loop pushes.
TextPattern(xml) == DecodedTexts(Groups("text", xml, 1))

\* Pattern 2, lines 70-74.
CdataPattern(xml) == DecodedTexts(Groups("cdata", xml, 1))

\* Pattern 3, lines 82-104: the try block; threw = it ended in the catch clause.
JsonPattern(xml) ==
  IF Includes(xml, <<"\"","e","v","e","n","t","s","\"">>)
  THEN CaptionJson(xml, "decode")
  ELSE Walked(FALSE, <<>>)

\* Pattern 4, lines 107-113.
GenericPattern(xml) == GenericTexts(Groups("generic", xml, 1))

\* if (texts.length > 0) return texts.join(' '); ... return null
JoinedOrNull(texts) == IF texts # <<>> THEN Str(Join(texts)) ELSE Null

\* Lines 97-120, texts being empty before Pattern 3: the try block returns
\* its segments, or is left with none, or is left by an exception with those
\* pushed so far; Pattern 4 then pushes to the same array texts.
AfterJsonPattern(xml, walked) ==
  IF ~walked.threw /\ walked.texts # <<>> THEN Str(Join(walked.texts))
  ELSE JoinedOrNull(walked.texts \o GenericPattern(xml))

\* Lines 76-120
AfterCdataPattern(xml, texts) ==
  IF texts # <<>> THEN Str(Join(texts)) ELSE AfterJsonPattern(xml, JsonPattern(xml))

\* Lines 64-120
AfterTextPattern(xml, texts) ==
  IF texts # <<>> THEN Str(Join(texts)) ELSE AfterCdataPattern(xml, CdataPattern(xml))

\* Lines 54-120
parseCaptionXml(xml) == AfterTextPattern(xml, TextPattern(xml))

(***************************************************************************)
(* The request and the environment of one invocation                       *)
(***************************************************************************)
\* req?.body?.url: url = <<>> stands for a missing or empty url.
Request(present, hasBody, url, documentId) ==
  [present |-> present, hasBody |-> hasBody, url |-> url, documentId |-> documentId]

NoRequest == Request(FALSE, FALSE, <<>>, "undefined")

SampleId == <<"d","Q","w","4","w","9","W","g","X","c","Q">>

WatchUrl == <<"h","t","t","p","s",":","/","/","w","w","w",".","y","o","u","t","u","b","e",".","c","o","m","/","w","a","t","c","h","?","v","=","d","Q","w","4","w","9","W","g","X","c","Q","&","t","=","4","2","s">>

NotAUrl == <<"n","o","t","-","a","-","u","r","l">>

\* documentId is optional.
Requests ==
  {NoRequest,
   Request(TRUE, FALSE, <<>>, "undefined"),
   Request(TRUE, TRUE, <<>>, "doc-1"),
   Request(TRUE, TRUE, WatchUrl, "doc-1"),
   Request(TRUE, TRUE, SampleId, "undefined"),
   Request(TRUE, TRUE, NotAUrl, "doc-1")}

NoTrack == [languageCode |-> <<>>, kind |-> "", baseUrl |-> <<>>]

NoHtml == [player |-> "absent", captions |-> <<>>, fallback |-> "absent", fallbackTracks |-> <<>>]

NoResult == [state |-> "running", ok |-> FALSE, error |-> "", chunksCreated |-> 0]

NoArg == [text |-> <<>>, id |-> <<>>, shape |-> "none"]

\* The pipeline's variables while a pure function is checked on its own.
PipelineIdle ==
  /\ rev = "none"
  /\ req = NoRequest
  /\ apiKey = FALSE
  /\ videoId = Null
  /\ html = NoHtml
  /\ track = NoTrack
  /\ transcript = Null
  /\ videoTitle = ""
  /\ docs = <<>>
  /\ written = 0
  /\ exc = ""
  /\ result = NoResult
  /\ calls = <<>>

(***************************************************************************)
(* extractVideoId on its own                                               *)
(***************************************************************************)
MaxTailLen == 2

\* 11-character IDs over [a-zA-Z0-9_-]
SampleIds ==
  {<<a>> \o <<"Q","w","4","-","9","W","g","_","c">> \o <<b>> : a \in {"d", "X", "7", "_", "-"}, b \in {"d", "X", "7", "_", "-"}}

\* An ID in an accepted URL shape, after nothing or a scheme and host, and
\* followed by nothing or by a delimiter and up to n further characters.
ShapedInputs(n) ==
  LET heads  == {<<>>, <<"h","t","t","p","s",":","/","/","w","w","w",".">>}
      prefix == [watch |-> <<"y","o","u","t","u","b","e",".","c","o","m","/","w","a","t","c","h","?","v","=">>, short |-> <<"y","o","u","t","u",".","b","e","/">>, embed |-> <<"y","o","u","t","u","b","e",".","c","o","m","/","e","m","b","e","d","/">>]
      tails  == {<<>>} \cup
                {<<d>> \o tail : d \in {"&", "?", "#"},
                                 tail \in UNION {[1..m -> {"t", "=", "&", "#"}] : m \in 0..n}}
  IN  {[text |-> h \o prefix[sh] \o id \o tl, id |-> id, shape |-> sh] :
         h \in heads, sh \in DOMAIN prefix, id \in SampleIds, tl \in tails}

\* The shaped inputs, the bare IDs, and inputs neither pattern accepts.
ExtractInputs(n) ==
  ShapedInputs(n)
  \cup {[text |-> id, id |-> id, shape |-> "bare"] : id \in SampleIds}
  \cup
  {[text |-> x, id |-> <<>>, shape |-> "unparsable"] :
     x \in {NotAUrl, <<>>, <<"y","o","u","t","u",".","b","e","/">>, <<"h","t","t","p","s",":","/","/","w","w","w",".","y","o","u","t","u","b","e",".","c","o","m","/","w","a","t","c","h","?","v","=">>,
            <<"h","t","t","p","s",":","/","/","w","w","w",".","y","o","u","t","u","b","e",".","c","o","m","/","w","a","t","c","h","?","v","=","&","t","=","1">>, <<"d","Q","w","4","w","9","W","g","X","c">>, <<"d","Q","w","4","w","9","W","g","X","c","Q","Q">>,
            <<"d","Q","w","4","w","9","W","g","X","c","!">>, <<"h","t","t","p","s",":","/","/","v","i","m","e","o",".","c","o","m","/","1","2","3","4","5","6","7","8","9","0","1">>}}

InitExtract ==
  /\ pc = "extractVideoId"
  /\ arg \in ExtractInputs(MaxTailLen)
  /\ ret = Null
  /\ PipelineIdle

CallExtractVideoId ==
  /\ pc = "extractVideoId"
  /\ ret' = extractVideoId(arg.text)
  /\ pc' = "returned"
  /\ UNCHANGED <<arg, pipelineVars>>

SpecExtract == InitExtract /\ [][CallExtractVideoId]_vars

\* C6: for every 11-character ID over [a-zA-Z0-9_-], extractVideoId returns
\* exactly ID for a URL containing youtube.com/watch?v=ID or youtu.be/ID
\* (optionally followed by "&", "?" or "#" and further text) and for the bare
\* ID; the URL pattern is tried first and its match is what is returned.
C6_ExtractsExactId ==
  pc = "returned" =>
    /\ arg.shape \in {"watch", "short", "bare"} => ret = Str(arg.id)
    /\ ~UrlPattern(arg.text).isNull => ret = UrlPattern(arg.text)

C6_Witness ==
  /\ pc = "returned"
  /\ arg.shape = "watch"
  /\ \E k \in 1..Len(arg.text) : arg.text[k] = "#"
  /\ ret = Str(arg.id)


(***************************************************************************)
(* parseCaptionXml on its own                                              *)
(***************************************************************************)
MaxElements == 2

MaxEvents == 2

RECURSIVE JoinWith(_, _)
\* The parts, one after the other, with sep between them.
JoinWith(parts, sep) ==
  IF parts = <<>> THEN <<>>
  ELSE IF Len(parts) = 1 THEN parts[1]
  ELSE parts[1] \o sep \o JoinWith(Tail(parts), sep)

\* Documents of up to n elements: an opening tag or none, a body, a closing
\* tag or none.
XmlInputs(n) ==
  LET opens    == {<<>>, <<"<","t","e","x","t",">">>, <<"<","T","E","X","T"," ","t","=","\"","0","\"",">">>, <<"<","p",">">>}
      bodies   == {<<>>, <<"H","i">>, <<"a">>, <<" ">>, <<"&","l","t",";","b","&","g","t",";"," ">>, <<"<","!","[","C","D","A","T","A","[","H","i","]","]",">">>, <<"<","!","[","C","D","A","T","A","[","]","]",">">>, <<"u","t","f","-","8"," ","e","n","c","o","d","i","n","g">>}
      closes   == {<<>>, <<"<","/","t","e","x","t",">">>, <<"<","/","p",">">>}
      elements == {o \o b \o c : o \in opens, b \in bodies, c \in closes}
  IN  {JoinWith(es, <<>>) : es \in UNION {[1..m -> elements] : m \in 0..n}}

\* {"events":[ ... ] ... } of up to n events, and the same document cut short (no JSON).
JsonInputs(n) ==
  LET events ==
        {<<"n","u","l","l">>,
         <<"{","\"","t","S","t","a","r","t","M","s","\"",":","0","}">>,
         <<"{","\"","s","e","g","s","\"",":","[","{","\"","u","t","f","8","\"",":","\"","h","i","\"","}","]","}">>,
         <<"{","\"","s","e","g","s","\"",":","[","{","\"","u","t","f","8","\"",":","\"","H","e","l","l","o"," ","\"","}",",","{","\"","u","t","f","8","\"",":","\"","w","o","r","l","d","\"","}","]","}">>,
         <<"{","\"","s","e","g","s","\"",":","[","{","\"","u","t","f","8","\"",":","\"","\\","n","\"","}",",","{","\"","u","t","f","8","\"",":","\"","a","&","a","m","p",";","b","\"","}","]","}">>,
         <<"{","\"","s","e","g","s","\"",":","[","{","\"","u","t","f","8","\"",":","\"","h","i","\"","}",",","n","u","l","l","]","}">>}
      \* what may follow the events array in the document
      extras == {<<>>, <<",","\"","x","\"",":","\"",">","b","b","<","\"">>, <<",","\"","x","\"",":","\"","<","t","e","x","t",">","H","i","<","/","t","e","x","t",">","\"">>}
  IN
  {<<"{","\"","e","v","e","n","t","s","\"",":","[">> \o JoinWith(es, <<",">>) \o <<"]">> \o x \o close :
     es \in UNION {[1..m -> events] : m \in 0..n},
     x \in extras, close \in {<<"}">>, <<>>}}

InitParse ==
  /\ pc = "parseCaptionXml"
  /\ arg \in {[text |-> x, id |-> <<>>, shape |-> "xml"] :
                x \in XmlInputs(MaxElements) \cup JsonInputs(MaxEvents)}
  /\ ret = Null
  /\ PipelineIdle

CallParseCaptionXml ==
  /\ pc = "parseCaptionXml"
  /\ ret' = parseCaptionXml(arg.text)
  /\ pc' = "returned"
  /\ UNCHANGED <<arg, pipelineVars>>

SpecParse == InitParse /\ [][CallParseCaptionXml]_vars

\* C8: parseCaptionXml tries plain <text> bodies, CDATA-wrapped <text>
\* bodies, embedded JSON events/segs and the generic between-tags scrape in
\* this order and stops at the first that yields any segment: the returned
\* text is the segments of that first-yielding pattern alone, and null is
\* returned exactly when all four yield nothing.
C8_FirstYieldingPatternOnly ==
  pc = "returned" =>
    LET yields == << TextPattern(arg.text), CdataPattern(arg.text),
                     JsonPattern(arg.text).texts, GenericPattern(arg.text) >>
        first  == {k \in 1..4 : yields[k] # <<>> /\ \A m \in 1..(k - 1) : yields[m] = <<>>}
    IN  /\ ret.isNull <=> first = {}
        /\ \A k \in first : ret = Str(Join(yields[k]))


(***************************************************************************)
(* storeDocument and fetchTranscript: data                                 *)
(***************************************************************************)
\* error.message of the Errors thrown; collaborator: one thrown by a collaborator.
Err ==
  [urlRequired |-> "URL is required in the request body",
   invalidUrl |-> "Invalid YouTube URL. Could not extract video ID.",
   apiKey |-> "GEMINI_API_KEY is not configured in environment variables",
   noTranscript |-> "Could not fetch transcript for this video. The video may not have captions, or they may be disabled. Please try a different video with captions enabled.",
   noContentLoaded |-> "No content could be loaded from the YouTube video",
   nothingToEmbed |-> "Document has no content to embed after splitting",
   collaborator |-> "collaborator failed"]

\* One external call: where it is made, the URL asked for (a fetch), how the
\* collaborator answered, and the body it delivered.
Call(site, url, outcome, body) == [site |-> site, url |-> url, outcome |-> outcome, body |-> body]

\* The places where the code calls a collaborator.
Site ==
  [client |-> "createSupabaseClient",
   embeddings |-> "new GoogleGenerativeAIEmbeddings",
   vectorStore |-> "new SupabaseVectorStore",
   page |-> "fetch(watchUrl)",
   captionJson |-> "fetch(jsonUrl)",
   captionXml |-> "fetch(captionUrl)",
   fallbackJson |-> "fetch(selectedTrack.baseUrl + '&fmt=json3')",
   title |-> "fetch(oembed)",
   loaderCreate |-> "YoutubeLoader.createFromUrl",
   loaderLoad |-> "loader.load",
   split |-> "textSplitter",
   addDocuments |-> "vectorStore.addDocuments"]

\* The calls that go to the video source.
VideoSourceSites == {Site.page, Site.captionJson, Site.captionXml, Site.fallbackJson, Site.title, Site.loaderLoad}

\* The calls that go to the embedding and storage service.
StorageSites == {Site.addDocuments}

WatchBase == <<"h","t","t","p","s",":","/","/","w","w","w",".","y","o","u","t","u","b","e",".","c","o","m","/","w","a","t","c","h","?","v","=">>

\* `https://www.youtube.com/oembed?url=https://www.youtube.com/watch?v=${videoId}&format=json`
OembedUrl(id) ==
  <<"h","t","t","p","s",":","/","/","w","w","w",".","y","o","u","t","u","b","e",".","c","o","m","/","o","e","m","b","e","d","?","u","r","l","=">>
  \o WatchBase \o id \o <<"&","f","o","r","m","a","t","=","j","s","o","n">>

Json3Suffix == <<"&","f","m","t","=","j","s","o","n","3">>

CaptionTrack(languageCode, kind, baseUrl) ==
  [languageCode |-> languageCode, kind |-> kind, baseUrl |-> baseUrl]

TrackEn == CaptionTrack(<<"e","n">>, "standard", <<"/","t","i","m","e","d","t","e","x","t","?","l","a","n","g","=","e","n">>)

TrackEnAsr == CaptionTrack(<<"e","n">>, "asr", <<"/","t","i","m","e","d","t","e","x","t","?","l","a","n","g","=","e","n","&","k","i","n","d","=","a","s","r">>)

TrackEnGB == CaptionTrack(<<"e","n","-","G","B">>, "standard", <<"/","t","i","m","e","d","t","e","x","t","?","l","a","n","g","=","e","n","-","G","B">>)

TrackDe == CaptionTrack(<<"d","e">>, "standard", <<"/","t","i","m","e","d","t","e","x","t","?","l","a","n","g","=","d","e">>)

\* a track without baseUrl
TrackNoUrl == CaptionTrack(<<"e","n">>, "standard", <<>>)

MaxTracks == 2

PlayerTrackLists ==
  UNION {[1..n -> {TrackEn, TrackEnAsr, TrackEnGB, TrackDe, TrackNoUrl}] : n \in 0..MaxTracks}

\* Only the first track of the array the second regex finds is looked at.
FallbackTrackLists == {<<>>, <<TrackDe>>, <<TrackNoUrl>>, <<TrackDe, TrackEn>>, <<TrackNoUrl, TrackEn>>}

\* A watch page, as what the code finds in it: whether
\* /ytInitialPlayerResponse\s*=\s*(\{.+?\});/ matches and its capture parses,
\* with the captionTracks found there; whether
\* /"captionTracks"\s*:\s*(\[[\s\S]*?\])\s*,\s*"/ matches and its capture
\* parses, with the array found there.  The second finding is "unread" until
\* line 233 runs that regex.
Page(player, captions, fallback, fallbackTracks) ==
  [player |-> player, captions |-> captions, fallback |-> fallback, fallbackTracks |-> fallbackTracks]

PlayerFindings ==
  {<<"parsed", c>> : c \in PlayerTrackLists} \cup {<<"absent", <<>>>>, <<"unparsable", <<>>>>}

FallbackFindings ==
  {<<"parsed", c>> : c \in FallbackTrackLists} \cup {<<"absent", <<>>>>, <<"unparsable", <<>>>>}

\* Bodies the caption endpoint serves.
Payloads ==
  {<<"{","\"","e","v","e","n","t","s","\"",":","[","{","\"","s","e","g","s","\"",":","[","{","\"","u","t","f","8","\"",":","\"","H","e","l","l","o"," ","\"","}",",","{","\"","u","t","f","8","\"",":","\"","w","o","r","l","d","\"","}","]","}","]","}">>,
   <<"{","\"","e","v","e","n","t","s","\"",":","[","]","}">>,
   <<"{","\"","e","v","e","n","t","s","\"",":","[","{","\"","s","e","g","s","\"",":","[","{","\"","u","t","f","8","\"",":","\"","h","i","\"","}","]","}",",","n","u","l","l","]","}">>,
   <<"<","t","e","x","t"," ","s","t","a","r","t","=","\"","0","\"",">","H","i","<","/","t","e","x","t",">">>,
   <<"<","p",">","<","/","p",">">>}

MaxChunks == 2

\* The tests of the three captions.find calls, in the order tried.
TrackTest(n, t) ==
  CASE n = 1 -> t.languageCode = <<"e","n">> /\ t.kind # "asr"
    [] n = 2 -> t.languageCode = <<"e","n">>
    [] OTHER -> StartsWith(t.languageCode, <<"e","n">>)

\* captions.find(n-th test): the index of the first track passing, 0 for undefined
Find(captions, n) ==
  IF \E k \in 1..Len(captions) : TrackTest(n, captions[k])
  THEN CHOOSE k \in 1..Len(captions) :
         TrackTest(n, captions[k]) /\ \A m \in 1..(k - 1) : ~TrackTest(n, captions[m])
  ELSE 0

\* lines 156-159, for a non-empty captions:
\* captions.find(..) || captions.find(..) || captions.find(..) || captions[0]
SelectTrack(captions) ==
  IF Find(captions, 1) # 0 THEN captions[Find(captions, 1)]
  ELSE IF Find(captions, 2) # 0 THEN captions[Find(captions, 2)]
  ELSE IF Find(captions, 3) # 0 THEN captions[Find(captions, 3)]
  ELSE captions[1]

\* !req?.body?.url
UrlMissing(r) == ~r.present \/ ~r.hasBody \/ r.url = <<>>

\* texts.map((text, index) => ({ ...text, metadata: { ... } })) for n chunks
Annotate(n) ==
  [i \in 1..n |->
     [videoId     |-> videoId,
      videoTitle  |-> videoTitle,
      documentId  |-> req.documentId,
      chunkIndex  |-> i - 1,
      totalChunks |-> n,
      source      |-> req.url]]


(***************************************************************************)
(* storeDocument                                                           *)
(***************************************************************************)
Init ==
  /\ pc = "start"
  /\ rev \in {"scrape", "loader"}
  /\ req \in Requests
  /\ apiKey \in BOOLEAN
  /\ videoId = Null
  /\ html = NoHtml
  /\ track = NoTrack
  /\ transcript = Null
  /\ videoTitle = ""
  /\ docs = <<>>
  /\ written = 0
  /\ exc = ""
  /\ result = NoResult
  /\ calls = <<>>
  /\ arg = NoArg
  /\ ret = Null

ThrowEscapes(message) ==
  /\ pc' = "done"
  /\ exc' = message
  /\ result' = [result EXCEPT !.state = "thrown"]

\* throw inside the try block of storeDocument: control goes to its catch clause.
Throw(message) ==
  /\ pc' = "catch"
  /\ exc' = message
  /\ result' = result

\* on to the next statement
Continue(next) == pc' = next /\ exc' = exc /\ result' = result

Log(site, url, outcome, body) == calls' = Append(calls, Call(site, url, outcome, body))

\* The order of the set-up steps; the two revisions differ in it.
AfterClientNoKeyCheck == "embeddings"

\* scrape: line 302 then 304; loader: line 81 then 84
AfterClient == IF rev = "scrape" THEN "apiKey" ELSE "embeddings"

\* scrape: line 306 then 308; loader: line 92 then 94
AfterApiKey == IF rev = "scrape" THEN "embeddings" ELSE "vectorStore"

\* scrape: line 311 then 313; loader: line 87 then 90
AfterEmbeddings == IF rev = "scrape" THEN "vectorStore" ELSE "apiKey"

\* scrape: line 317 then 321; loader: line 98 then 101
AfterVectorStore == IF rev = "scrape" THEN "fetchPage" ELSE "loaderCreate"

AfterInvalidUrlProceed == Continue("client") /\ videoId' = Null

\* if (!videoId) throw new Error('Invalid YouTube URL. Could not extract video ID.')
AfterInvalidUrl == Throw(Err.invalidUrl) /\ videoId' = videoId

\* scrape: lines 288-300; loader: lines 74-79
Validate ==
  /\ pc = "start"
  /\ IF UrlMissing(req) THEN Throw(Err.urlRequired) /\ videoId' = videoId
     ELSE IF rev = "scrape" THEN
       IF ~Truthy(extractVideoId(req.url)) THEN AfterInvalidUrl
       ELSE Continue("client") /\ videoId' = extractVideoId(req.url)
     ELSE Continue("client") /\ videoId' = videoId
  /\ UNCHANGED <<rev, req, apiKey, html, track, transcript, videoTitle, docs, written, calls, arg, ret>>

\* const supabase = createSupabaseClient()
CreateClient ==
  /\ pc = "client"
  /\ \E outcome \in {"ok", "throws"} :
       /\ Log(Site.client, <<>>, outcome, <<>>)
       /\ IF outcome = "ok" THEN Continue(AfterClient) ELSE Throw(Err.collaborator)
  /\ UNCHANGED <<rev, req, apiKey, videoId, html, track, transcript, videoTitle, docs, written, arg, ret>>

\* if (!process.env.GEMINI_API_KEY) throw new Error(...)
CheckApiKey ==
  /\ pc = "apiKey"
  /\ IF ~apiKey THEN Throw(Err.apiKey) ELSE Continue(AfterApiKey)
  /\ UNCHANGED <<rev, req, apiKey, videoId, html, track, transcript, videoTitle, docs, written, calls, arg, ret>>

\* new GoogleGenerativeAIEmbeddings({ model, apiKey }): with no key the
\* constructor may throw or not (the library may find one elsewhere).
NewEmbeddings ==
  /\ pc = "embeddings"
  /\ \E outcome \in (IF apiKey THEN {"ok"} ELSE {"ok", "throws"}) :
       /\ Log(Site.embeddings, <<>>, outcome, <<>>)
       /\ IF outcome = "ok" THEN Continue(AfterEmbeddings) ELSE Throw(Err.collaborator)
  /\ UNCHANGED <<rev, req, apiKey, videoId, html, track, transcript, videoTitle, docs, written, arg, ret>>

\* new SupabaseVectorStore(embeddings, { client, tableName, queryName })
NewVectorStore ==
  /\ pc = "vectorStore"
  /\ \E outcome \in {"ok", "throws"} :
       /\ Log(Site.vectorStore, <<>>, outcome, <<>>)
       /\ IF outcome = "ok" THEN Continue(AfterVectorStore) ELSE Throw(Err.collaborator)
  /\ UNCHANGED <<rev, req, apiKey, videoId, html, track, transcript, videoTitle, docs, written, arg, ret>>

(***************************************************************************)
(* fetchTranscript (scraping revision)                                     *)
(***************************************************************************)
\* return from fetchTranscript: its locals are gone, line 321 has the value.
ReturnTranscript(value) ==
  /\ transcript' = value
  /\ html' = NoHtml
  /\ track' = NoTrack
  /\ Continue("checkTranscript")

\* lines 126-142; an exception of fetch or text() is caught at line 280
FetchPage ==
  /\ pc = "fetchPage"
  /\ \/ \E outcome \in {"throws", "notOk", "textThrows"} :
          /\ Log(Site.page, WatchBase \o videoId.s, outcome, <<>>)
          /\ ReturnTranscript(Null)
     \/ \E found \in PlayerFindings :
          /\ Log(Site.page, WatchBase \o videoId.s, "ok", <<>>)
          /\ html' = Page(found[1], found[2], "unread", <<>>)
          /\ Continue("parsePlayer")
          /\ UNCHANGED <<track, transcript>>
  /\ UNCHANGED <<rev, req, apiKey, videoId, videoTitle, docs, written, arg, ret>>

\* lines 145-165: the player response has caption tracks and the selected one a baseUrl
PlayerTrackUsable ==
  /\ html.player = "parsed"
  /\ html.captions # <<>>
  /\ SelectTrack(html.captions).baseUrl # <<>>

ParsePlayerResponse ==
  /\ pc = "parsePlayer"
  /\ IF PlayerTrackUsable
     THEN track' = SelectTrack(html.captions) /\ Continue("captionJson")
     ELSE track' = track /\ Continue("regexFallback")
  /\ UNCHANGED <<rev, req, apiKey, videoId, html, transcript, videoTitle, docs, written, calls, arg, ret>>

\* The transcript a json3 body gives at lines 183-200 and 246-263, Null when
\* it gives none (a SyntaxError, a TypeError, no events, no text).
TextsOrNull(walked) ==
  IF ~walked.threw /\ walked.texts # <<>> THEN Str(Join(walked.texts)) ELSE Null

JsonTranscript(body) == TextsOrNull(CaptionJson(body, "trim"))

AfterCaptionJsonAlwaysXml(found) == "captionXml"

\* lines 196-207: return the transcript found, or go on to the XML request
AfterCaptionJson(found) == IF Truthy(found) THEN "return" ELSE "captionXml"

\* lines 178-207 with the body served and the transcript lines 183-200 find in it
CaptionJsonServed(body, found) ==
  /\ Log(Site.captionJson, track.baseUrl \o Json3Suffix, "ok", body)
  /\ IF AfterCaptionJson(found) = "return"
     THEN ReturnTranscript(found)
     ELSE Continue(AfterCaptionJson(found)) /\ UNCHANGED <<html, track, transcript>>

\* lines 166-204; an exception of fetch or text() is caught at line 226
FetchCaptionJson ==
  /\ pc = "captionJson"
  /\ \/ \E outcome \in {"throws", "textThrows"} :
          /\ Log(Site.captionJson, track.baseUrl \o Json3Suffix, outcome, <<>>)
          /\ Continue("regexFallback")
          /\ UNCHANGED <<html, track, transcript>>
     \/ /\ Log(Site.captionJson, track.baseUrl \o Json3Suffix, "notOk", <<>>)
        /\ Continue("captionXml")
        /\ UNCHANGED <<html, track, transcript>>
     \/ \E body \in Payloads : CaptionJsonServed(body, JsonTranscript(body))
  /\ UNCHANGED <<rev, req, apiKey, videoId, videoTitle, docs, written, arg, ret>>

AfterXmlFailureRetryJson ==
  IF Cardinality({k \in DOMAIN calls : calls[k].site = Site.captionJson}) < 2
  THEN "captionJson" ELSE "regexFallback"

\* lines 214-231: no transcript from the XML request: on to the regex fallback
AfterXmlFailure == "regexFallback"

\* lines 214-223 with the body served and what parseCaptionXml makes of it
CaptionXmlServed(body, found) ==
  /\ Log(Site.captionXml, track.baseUrl, "ok", body)
  /\ IF Truthy(found)
     THEN ReturnTranscript(found)
     ELSE Continue(AfterXmlFailure) /\ UNCHANGED <<html, track, transcript>>

\* lines 206-223; an exception of fetch or text() is caught at line 226
FetchCaptionXml ==
  /\ pc = "captionXml"
  /\ \/ \E outcome \in {"throws", "notOk", "textThrows"} :
          /\ Log(Site.captionXml, track.baseUrl, outcome, <<>>)
          /\ Continue(AfterXmlFailure)
          /\ UNCHANGED <<html, track, transcript>>
     \/ \E body \in Payloads : CaptionXmlServed(body, parseCaptionXml(body))
  /\ UNCHANGED <<rev, req, apiKey, videoId, videoTitle, docs, written, arg, ret>>

\* lines 232-242: the regex finds a captionTracks array whose first track has a baseUrl
FallbackTrackUsable(page) ==
  /\ page.fallback = "parsed"
  /\ page.fallbackTracks # <<>>
  /\ page.fallbackTracks[1].baseUrl # <<>>

RegexFallback ==
  /\ pc = "regexFallback"
  /\ \E found \in FallbackFindings :
       LET page == Page(html.player, html.captions, found[1], found[2])
       IN  IF FallbackTrackUsable(page)
           THEN /\ html' = page
                /\ track' = page.fallbackTracks[1]
                /\ Continue("fallbackJson")
                /\ transcript' = transcript
           ELSE ReturnTranscript(Null)
  /\ UNCHANGED <<rev, req, apiKey, videoId, videoTitle, docs, written, calls, arg, ret>>

\* lines 246-268: JSON first; parseCaptionXml(captionData) in the catch clause only
FallbackTexts(body, walked) ==
  IF walked.threw THEN parseCaptionXml(body)
  ELSE IF walked.texts # <<>> THEN Str(Join(walked.texts))
  ELSE Null

FallbackTranscript(body) == FallbackTexts(body, CaptionJson(body, "trim"))

\* lines 244-278 with the body served and the transcript found in it
FallbackJsonServed(body, found) ==
  /\ Log(Site.fallbackJson, track.baseUrl \o Json3Suffix, "ok", body)
  /\ ReturnTranscript(IF Truthy(found) THEN found ELSE Null)

\* lines 243-278; an exception of fetch or text() is caught at line 272
FetchFallbackJson ==
  /\ pc = "fallbackJson"
  /\ \/ \E outcome \in {"throws", "notOk", "textThrows"} :
          /\ Log(Site.fallbackJson, track.baseUrl \o Json3Suffix, outcome, <<>>)
          /\ ReturnTranscript(Null)
     \/ \E body \in Payloads : FallbackJsonServed(body, FallbackTranscript(body))
  /\ UNCHANGED <<rev, req, apiKey, videoId, videoTitle, docs, written, arg, ret>>


(***************************************************************************)
(* storeDocument, after the transcript                                     *)
(***************************************************************************)
AfterMissingTranscriptProceed == Continue("title")

\* lines 324-328: throw new Error('Could not fetch transcript for this video. ...')
AfterMissingTranscript == Throw(Err.noTranscript)

\* !transcript || transcript.trim().length === 0
TranscriptMissing == ~Truthy(transcript) \/ Trim(transcript.s) = <<>>

\* lines 323-331
CheckTranscript ==
  /\ pc = "checkTranscript"
  /\ IF TranscriptMissing THEN AfterMissingTranscript ELSE Continue("title")
  /\ UNCHANGED <<rev, req, apiKey, videoId, html, track, transcript, videoTitle, docs, written, calls, arg, ret>>

\* getVideoTitle, lines 21-34: every failure gives the placeholder
GetVideoTitle ==
  /\ pc = "title"
  /\ \/ \E outcome \in {"throws", "notOk", "jsonThrows"} :
          /\ Log(Site.title, OembedUrl(videoId.s), outcome, <<>>)
          /\ videoTitle' = "Unknown Title"
     \/ \E title \in {"Some Title", "undefined"} :
          /\ Log(Site.title, OembedUrl(videoId.s), "ok", <<>>)
          /\ videoTitle' = title
  /\ Continue("split")
  /\ UNCHANGED <<rev, req, apiKey, videoId, html, track, transcript, docs, written, arg, ret>>

\* loader revision, lines 101-103
LoaderCreate ==
  /\ pc = "loaderCreate"
  /\ \E outcome \in {"ok", "throws"} :
       /\ Log(Site.loaderCreate, req.url, outcome, <<>>)
       /\ IF outcome = "ok" THEN Continue("loaderLoad") ELSE Throw(Err.collaborator)
  /\ UNCHANGED <<rev, req, apiKey, videoId, html, track, transcript, videoTitle, docs, written, arg, ret>>

\* loader revision, lines 105-115: docs is empty, or holds the video's document
LoaderLoad ==
  /\ pc = "loaderLoad"
  /\ \E outcome \in {"throws", "empty", "ok"} :
       /\ Log(Site.loaderLoad, req.url, outcome, <<>>)
       /\ CASE outcome = "throws" -> Throw(Err.collaborator)
            [] outcome = "empty"  -> Throw(Err.noContentLoaded)
            [] OTHER              -> Continue("split")
  /\ UNCHANGED <<rev, req, apiKey, videoId, html, track, transcript, videoTitle, docs, written, arg, ret>>

\* scrape: lines 336-362; loader: lines 117-140.  The splitter is a
\* collaborator: it throws, or gives n chunks whose first may be empty.
SplitAndAnnotate ==
  /\ pc = "split"
  /\ \/ /\ Log(Site.split, <<>>, "throws", <<>>)
        /\ Throw(Err.collaborator)
        /\ docs' = docs
     \/ \E n \in 0..MaxChunks, firstEmpty \in BOOLEAN :
          /\ Log(Site.split, <<>>, "ok", <<>>)
          \* !texts.length || !texts[0].pageContent
          /\ IF n = 0 \/ firstEmpty
             THEN Throw(Err.nothingToEmbed) /\ docs' = docs
             ELSE Continue("addDocuments") /\ docs' = Annotate(n)
  /\ UNCHANGED <<rev, req, apiKey, videoId, html, track, transcript, videoTitle, written, arg, ret>>

Success(n) == [state |-> "returned", ok |-> TRUE, error |-> "", chunksCreated |-> n]

Failure(message) == [state |-> "returned", ok |-> FALSE, error |-> message, chunksCreated |-> 0]

AfterStoreFailureSwallowed == pc' = "done" /\ exc' = exc /\ result' = Success(Len(docs))

\* await vectorStore.addDocuments(docsWithMetaData) rejects: to the catch clause
AfterStoreFailure == Throw(Err.collaborator)

\* scrape: lines 364-374; loader: lines 142-151.  A failed call may have
\* written some of the rows; nothing takes them back.
AddDocuments ==
  /\ pc = "addDocuments"
  /\ \/ /\ Log(Site.addDocuments, <<>>, "ok", <<>>)
        /\ written' = Len(docs)
        /\ pc' = "done"
        /\ exc' = exc
        /\ result' = Success(Len(docs))
     \/ \E partial \in 0..(Len(docs) - 1) :
          /\ Log(Site.addDocuments, <<>>, "throws", <<>>)
          /\ written' = partial
          /\ AfterStoreFailure
  /\ UNCHANGED <<rev, req, apiKey, videoId, html, track, transcript, videoTitle, docs, arg, ret>>

\* scrape: lines 376-384; loader: lines 153-162
Catch ==
  /\ pc = "catch"
  /\ pc' = "done"
  /\ result' = Failure(exc)
  /\ UNCHANGED <<rev, req, apiKey, videoId, html, track, transcript, videoTitle, docs, written, exc, calls, arg, ret>>

Next ==
  \/ Validate
  \/ CreateClient
  \/ CheckApiKey
  \/ NewEmbeddings
  \/ NewVectorStore
  \/ FetchPage
  \/ ParsePlayerResponse
  \/ FetchCaptionJson
  \/ FetchCaptionXml
  \/ RegexFallback
  \/ FetchFallbackJson
  \/ CheckTranscript
  \/ GetVideoTitle
  \/ LoaderCreate
  \/ LoaderLoad
  \/ SplitAndAnnotate
  \/ AddDocuments
  \/ Catch

Spec == Init /\ [][Next]_vars

\* Every awaited call settles and its continuation runs.
FairSpec == Spec /\ WF_vars(Next)

(***************************************************************************)
(* Properties of storeDocument and fetchTranscript                         *)
(***************************************************************************)
\* C1: for every request (a missing request, body or url included) and every
\* outcome of every external call, an invocation of storeDocument ends by
\* returning { ok: true, ... } or { ok: false, error, ... }; it never ends by
\* throwing to its caller.
C1_NeverThrows ==
  /\ result.state # "thrown"
  /\ pc = "done" =>
       /\ result.state = "returned"
       /\ result.ok \/ result.error = exc

C1_Witness ==
  /\ pc = "done"
  /\ result.state = "returned"
  /\ ~result.ok
  /\ result.error = Err.collaborator
  /\ \E k \in DOMAIN calls : calls[k].site = Site.addDocuments /\ calls[k].outcome = "throws"

\* C2: whenever fetchTranscript ended with null or with empty or
\* whitespace-only text, storeDocument returns { ok: false } with the
\* transcript-unavailable message, and the invocation makes no title fetch,
\* no chunking and no vectorStore.addDocuments call.
C2_NoTranscriptNoStorage ==
  (/\ rev = "scrape"
   /\ pc \in {"checkTranscript", "title", "split", "addDocuments", "catch", "done"}
   /\ \E k \in DOMAIN calls : calls[k].site = Site.page
   /\ (~Truthy(transcript) \/ Trim(transcript.s) = <<>>))
  => /\ pc \in {"checkTranscript", "catch", "done"}
     /\ \A k \in DOMAIN calls : calls[k].site \notin {Site.title, Site.split, Site.addDocuments}
     /\ pc = "catch" => exc = Err.noTranscript
     /\ pc = "done" => result = Failure(Err.noTranscript)

C2_Witness ==
  /\ rev = "scrape"
  /\ pc = "done"
  /\ transcript.isNull
  /\ result = Failure(Err.noTranscript)
  /\ \E k \in DOMAIN calls : calls[k].site = Site.fallbackJson /\ calls[k].outcome = "ok"

\* C3, as the code has it: when GEMINI_API_KEY is absent, storeDocument
\* returns { ok: false } and makes no call to the video source or to the
\* embedding and storage service, in both revisions; the error is the
\* GEMINI_API_KEY configuration error when the request passed validation and
\* no constructor before the key check threw.
C3_NoKeyFailsBeforeNetwork ==
  ~apiKey =>
    /\ \A k \in DOMAIN calls : calls[k].site \notin VideoSourceSites \cup StorageSites
    /\ pc = "done" =>
         /\ result.state = "returned"
         /\ ~result.ok
         /\ (/\ ~UrlMissing(req)
             /\ rev = "scrape" => ~extractVideoId(req.url).isNull
             /\ \A k \in DOMAIN calls : calls[k].outcome # "throws")
            => result.error = Err.apiKey

C3_Witness ==
  /\ ~apiKey
  /\ rev = "loader"
  /\ pc = "done"
  /\ result = Failure(Err.apiKey)
  /\ \E k \in DOMAIN calls : calls[k].site = Site.embeddings /\ calls[k].outcome = "ok"

\* C3, as the specification words it: when GEMINI_API_KEY is absent,
\* storeDocument returns { ok: false } with the configuration error, and no
\* call to the video source or to the embedding and storage service is made.
C3_NoKeyConfigurationError ==
  ~apiKey =>
    /\ \A k \in DOMAIN calls : calls[k].site \notin VideoSourceSites \cup StorageSites
    /\ pc = "done" => result = Failure(Err.apiKey)

\* C4: a request whose url is missing, or (scraping revision) whose url gives
\* extractVideoId no video ID, fails at once: { ok: false }, with the
\* 'Invalid YouTube URL' error in the second case, and no external call at
\* all is made in that invocation.
C4_InvalidInputFailsImmediately ==
  /\ UrlMissing(req) =>
       /\ calls = <<>>
       /\ pc \in {"start", "catch", "done"}
       /\ pc = "done" => result = Failure(Err.urlRequired)
  /\ (rev = "scrape" /\ ~UrlMissing(req) /\ extractVideoId(req.url).isNull) =>
       /\ calls = <<>>
       /\ pc \in {"start", "catch", "done"}
       /\ pc = "done" => result = Failure(Err.invalidUrl)

C4_Witness ==
  /\ rev = "scrape"
  /\ req.url = NotAUrl
  /\ pc = "done"
  /\ result = Failure(Err.invalidUrl)
  /\ calls = <<>>

\* C5: storeDocument returns { ok: true } only if the one
\* vectorStore.addDocuments call for the whole chunk list was made and did
\* not fail, and chunksCreated is then the number of chunks submitted; if
\* that call fails the result is { ok: false }.
C5_OkOnlyAfterStore ==
  /\ (result.state = "returned" /\ result.ok) =>
       /\ Cardinality({k \in DOMAIN calls : calls[k].site = Site.addDocuments}) = 1
       /\ calls[Len(calls)] = Call(Site.addDocuments, <<>>, "ok", <<>>)
       /\ docs # <<>>
       /\ result.chunksCreated = Len(docs)
       /\ written = Len(docs)
  /\ (pc = "done" /\ \E k \in DOMAIN calls :
                       calls[k].site = Site.addDocuments /\ calls[k].outcome = "throws") =>
       /\ result.state = "returned"
       /\ ~result.ok

C5_Witness ==
  /\ pc = "done"
  /\ result.ok
  /\ Len(docs) > 1
  /\ result.chunksCreated = Len(docs)

\* C7: for the track selected from the player response, fetchTranscript
\* requests baseUrl + '&fmt=json3' first, and requests the plain baseUrl (XML)
\* only if that JSON request failed: never before it, and never after it
\* produced transcript text.
C7_JsonBeforeXml ==
  /\ pc \in {"captionJson", "captionXml"} => track = SelectTrack(html.captions)
  /\ \A k \in DOMAIN calls :
       calls[k].site = Site.captionXml =>
         /\ k > 1
         /\ calls[k - 1].site = Site.captionJson
         /\ calls[k - 1].url = calls[k].url \o Json3Suffix
         /\ \/ calls[k - 1].outcome = "notOk"
            \/ calls[k - 1].outcome = "ok" /\ JsonTranscript(calls[k - 1].body).isNull

C7_Witness ==
  \E k \in DOMAIN calls :
    /\ k > 1
    /\ calls[k].site = Site.captionXml
    /\ calls[k].outcome = "ok"
    /\ calls[k - 1].site = Site.captionJson
    /\ calls[k - 1].outcome = "ok"

\* C9: the regex fallback is taken when the player response gives no caption
\* track, and repeats the primary path's retrieval on the first track of the
\* parsed array: the JSON request first, and the plain-URL XML request if
\* that fails.
C9_FallbackRepeatsRetrieval ==
  /\ pc \in {"captionJson", "captionXml"} => PlayerTrackUsable
  /\ pc = "fallbackJson" => track = html.fallbackTracks[1]
  /\ \A k \in DOMAIN calls :
       (/\ calls[k].site = Site.fallbackJson
        /\ pc \in {"checkTranscript", "title", "split", "addDocuments", "catch", "done"}
        /\ \/ calls[k].outcome = "notOk"
           \/ calls[k].outcome = "ok" /\ JsonTranscript(calls[k].body).isNull)
       => \E m \in (k + 1)..Len(calls) : calls[m].url \o Json3Suffix = calls[k].url

\* C10: within one invocation nothing is retried: the watch-page fetch, the
\* title fetch, the addDocuments call and each caption request (primary
\* JSON, primary XML, regex fallback) are made at most once, whatever the
\* outcomes; and the invocation always ends with a result.
C10_NoRetryAndTerminates ==
  /\ [](\A i, j \in DOMAIN calls : calls[i].site = calls[j].site => i = j)
  /\ <>(pc = "done" /\ result.state = "returned")

C10_Witness ==
  /\ pc = "done"
  /\ {Site.page, Site.captionJson, Site.captionXml, Site.fallbackJson, Site.title, Site.addDocuments}
       \subseteq {calls[k].site : k \in DOMAIN calls}

====
